---- MODULE Spec2Model ----
(***************************************************************************)
(* A model of squrly: the streaming bracket tokenizer (UrlParser) and the  *)
(* rate-limited, retrying URL processor (UrlProcessor).                    *)
(*                                                                         *)
(* Every action is one run-to-suspension step of the single JavaScript     *)
(* thread: a stream handler, a timer callback, or the settling of the      *)
(* in-flight fetch together with the whole promise continuation that       *)
(* follows it up to the next await that really suspends.                   *)
(***************************************************************************)
EXTENDS Integers, Sequences, FiniteSets, TLC

(***************************************************************************)
(* Program constants (src/src/lib/UrlProcessor.ts lines 10-13).            *)
(***************************************************************************)
RATE_LIMIT_DELAY_MS == 1000
RETRY_DELAY_MS == 60000
RETRY_DELAY_TEST_MS == 10

(***************************************************************************)
(* Bounds of the model.                                                    *)
(***************************************************************************)
\* number of bracket groups written to the processor in one run
MaxGroups == 3
\* number of URL-shaped tokens matched inside one bracket group
MaxTokens == 2
\* number of characters of the text written to the parser
MaxLen == 5

(***************************************************************************)
(* URL tokens as LAST_URL_REGEX matches them: an optional scheme and the   *)
(* rest (host and path).  A canonical URL is a token with a scheme.        *)
(***************************************************************************)
Tokens ==
  { [scheme |-> "", rest |-> "a.com"],
    [scheme |-> "https://", rest |-> "a.com"],
    [scheme |-> "http://", rest |-> "b.com"] }

\* the match lists content.matchAll(LAST_URL_REGEX) can return
Groups ==
  UNION { [1..n -> Tokens] : n \in 0..MaxTokens }

\* the token used as it was matched
Canonical_AsMatched(tok) == tok

\* lines 70-73: a token without a scheme gets https:// prepended
Canonical(tok) ==
  IF tok.scheme # "http://" /\ tok.scheme # "https://"
    THEN [scheme |-> "https://", rest |-> tok.rest]
    ELSE tok

Urls == { Canonical(t) : t \in Tokens }

\* no match, and the URL of no match
NoToken == [scheme |-> "", rest |-> ""]

NoUrl == NoToken

\* the latest step was not a call of _transform
NoGroup == << NoToken >>

\* the first match of the group taken in place of the last
LastMatch_First(group) ==
  IF Len(group) = 0 THEN NoToken ELSE group[1]

\* lines 61-68: the last match of the group, or NoToken
LastMatch(group) ==
  IF Len(group) = 0 THEN NoToken ELSE group[Len(group)]

\* lines 59-73: the canonical URL of the last match, or NoUrl
ExtractUrl(group) ==
  IF LastMatch(group) = NoToken THEN NoUrl ELSE Canonical(LastMatch(group))

\* how the native fetch of one request can settle
FetchOutcomes == {"ok", "status", "transport", "abort"}

\* no title element in the body, no match of EMAIL_REGEX in the body
NoTitle == << "no title element" >>

NoEmail == "no email"

\* response bodies: the text content of the first title element and the
\* first match of EMAIL_REGEX
Bodies ==
  { [title |-> << " ", "T" >>, email |-> "e@x.io"],
    [title |-> << " " >>, email |-> NoEmail],
    [title |-> NoTitle, email |-> "e@x.io"] }

\* the body of a request that failed
NoBody == [title |-> NoTitle, email |-> NoEmail]

\* the secret given to the constructor
Secret == "secret"

NodeEnvs == {"test", "production"}

VARIABLES
  \* ---- UrlProcessor fields (lines 28-33)
  seenUrls,        \* Set<string>
  taskQueue,       \* queue of tasks [url, isRetry]
  isProcessing,    \* boolean
  flushCallback,   \* TRUE when a callback is stored, FALSE when null
  pendingRetries,  \* number
  \* ---- the event loop around it
  loops,           \* suspended processQueue invocations
  retryTimers,     \* armed setTimeout callbacks of scheduleRetry, in order
  nodeEnv,         \* process.env.NODE_ENV
  ended,           \* _flush has been called (the input stream ended)
  output,          \* records pushed downstream, in order
  stderr,          \* diagnostics written, in order
  errors,          \* errors passed to a stream callback or thrown by a task
  reqLog,          \* HTTP requests settled, by the URL of their task, in order
  recording,       \* what is observed of the run: "nothing", the "requests"
                   \* (entered in reqLog), the "groups" (kept in written) or
                   \* the "tasks" (entered in taskLog)
  written,         \* the group handed to _transform by the latest step, if any
  taskLog,         \* the tasks pushed on the queue and started, in order
  \* ---- observation of the run
  doneCount,       \* times the callback given to _flush was invoked
  alldoneCount,    \* times 'alldone' was emitted
  arrivals,        \* groups received, by their last match
  created,         \* ProcessingTasks ever pushed, by URL and kind
  armed,           \* retry timers ever armed, by URL
  sinceStart,      \* ms since the last task started, saturating; -1: none
  lastGap,         \* ms between the starts of the last two tasks; -1: none
  \* ---- UrlParser fields (UrlParser.ts lines 16-19) and its environment
  input,           \* the whole text written to the parser
  pos,             \* characters of input consumed so far
  bytePos,         \* bytes of the encoded input consumed so far
  lastCut,         \* characters consumed before the last chunk written
  bracketLevel,
  currentContent,
  isEscaped,
  emitted,         \* groups pushed by the parser, in order
  parserEnded      \* the parser's _flush has been called

procVars ==
  << seenUrls, taskQueue, isProcessing, flushCallback, pendingRetries, loops,
     retryTimers, nodeEnv, ended, output, stderr, errors, reqLog, recording,
     written, taskLog,
     doneCount, alldoneCount, arrivals, created, armed, sinceStart, lastGap >>

parserVars ==
  << input, pos, bytePos, lastCut, bracketLevel, currentContent, isEscaped, emitted,
     parserEnded >>

vars ==
  << seenUrls, taskQueue, isProcessing, flushCallback, pendingRetries, loops,
     retryTimers, nodeEnv, ended, output, stderr, errors, reqLog, recording,
     written, taskLog,
     doneCount, alldoneCount, arrivals, created, armed, sinceStart, lastGap,
     input, pos, bytePos, lastCut, bracketLevel, currentContent, isEscaped, emitted,
     parserEnded >>

(***************************************************************************)
(* The processor's state as one record, so that a handler and the methods  *)
(* it calls compose as functions from state to state.                      *)
(***************************************************************************)
Cur ==
  [ seenUrls |-> seenUrls, taskQueue |-> taskQueue,
    isProcessing |-> isProcessing, flushCallback |-> flushCallback,
    pendingRetries |-> pendingRetries, loops |-> loops,
    retryTimers |-> retryTimers, output |-> output, stderr |-> stderr,
    errors |-> errors, taskLog |-> taskLog,
    doneCount |-> doneCount, alldoneCount |-> alldoneCount,
    created |-> created, armed |-> armed,
    sinceStart |-> sinceStart, lastGap |-> lastGap ]

Commit(s) ==
  /\ seenUrls' = s.seenUrls
  /\ taskQueue' = s.taskQueue
  /\ isProcessing' = s.isProcessing
  /\ flushCallback' = s.flushCallback
  /\ pendingRetries' = s.pendingRetries
  /\ loops' = s.loops
  /\ retryTimers' = s.retryTimers
  /\ output' = s.output
  /\ stderr' = s.stderr
  /\ errors' = s.errors
  /\ taskLog' = s.taskLog
  /\ doneCount' = s.doneCount
  /\ alldoneCount' = s.alldoneCount
  /\ created' = s.created
  /\ armed' = s.armed
  /\ sinceStart' = s.sinceStart
  /\ lastGap' = s.lastGap

RemoveAt(seq, i) ==
  SubSeq(seq, 1, i - 1) \o SubSeq(seq, i + 1, Len(seq))

Min(a, b) == IF a < b THEN a ELSE b

Monus(a, b) == IF a > b THEN a - b ELSE 0

(***************************************************************************)
(* UrlProcessor                                                            *)
(***************************************************************************)
NoTask == [url |-> NoUrl, isRetry |-> FALSE]

\* a processQueue invocation suspended in "await task()": the native fetch
\* of request reqUrl is in flight, issued by fetch(reqUrl, isRetry)
FetchRec(task, reqUrl, innerRetry) ==
  [pc |-> "fetch", task |-> task, reqUrl |-> reqUrl, isRetry |-> innerRetry,
   left |-> 0]

\* a processQueue invocation suspended in the rate-limit setTimeout
DelayRec ==
  [pc |-> "delay", task |-> NoTask, reqUrl |-> NoUrl, isRetry |-> FALSE,
   left |-> RATE_LIMIT_DELAY_MS]

\* the observation of a task pushed on the queue or started
LogTask(s, ev, task) ==
  IF recording = "tasks"
    THEN [s EXCEPT !.taskLog = Append(@, [ev |-> ev, task |-> task])]
    ELSE s

\* the "can finish" test of _flush and checkAndFlush
CanFinish(s) ==
  /\ Len(s.taskQueue) = 0
  /\ ~s.isProcessing
  /\ s.pendingRetries = 0

\* checkAndFlush without the pending-retry test
checkAndFlush_IgnoringRetries(s) ==
  IF s.flushCallback /\ Len(s.taskQueue) = 0 /\ ~s.isProcessing
    THEN [s EXCEPT !.doneCount = @ + 1,
                   !.flushCallback = FALSE,
                   !.alldoneCount = @ + 1]
    ELSE s

checkAndFlush(s) ==
  IF s.flushCallback /\ CanFinish(s)
    THEN [s EXCEPT !.doneCount = @ + 1,
                   !.flushCallback = FALSE,
                   !.alldoneCount = @ + 1]
    ELSE s

\* the head of the while loop of processQueue, and its exit: shift a task
\* and call it (processUrl runs up to the await of the native fetch), or
\* leave the loop, clear isProcessing and checkAndFlush
\* the loop without the checkAndFlush at its exit
LoopTop_NoCheck(s) ==
  IF Len(s.taskQueue) > 0
    THEN LET task == Head(s.taskQueue)
         IN [s EXCEPT !.taskQueue = Tail(@),
                      !.loops = Append(@, FetchRec(task, task.url, task.isRetry)),
                      !.lastGap = s.sinceStart,
                      !.sinceStart = 0]
    ELSE [s EXCEPT !.isProcessing = FALSE]

\* the loop that takes the task pushed last
LoopTop_TakesLast(s) ==
  IF Len(s.taskQueue) > 0
    THEN LET task == s.taskQueue[Len(s.taskQueue)]
         IN LogTask(
              [s EXCEPT !.taskQueue = SubSeq(@, 1, Len(@) - 1),
                        !.loops = Append(@, FetchRec(task, task.url, task.isRetry)),
                        !.lastGap = s.sinceStart,
                        !.sinceStart = 0],
              "start", task)
    ELSE checkAndFlush([s EXCEPT !.isProcessing = FALSE])

LoopTop(s) ==
  IF Len(s.taskQueue) > 0
    THEN LET task == Head(s.taskQueue)
         IN LogTask(
              [s EXCEPT !.taskQueue = Tail(@),
                        !.loops = Append(@, FetchRec(task, task.url, task.isRetry)),
                        !.lastGap = s.sinceStart,
                        !.sinceStart = 0],
              "start", task)
    ELSE checkAndFlush([s EXCEPT !.isProcessing = FALSE])

\* after "await task()": wait the rate-limit delay if the queue is not empty
AfterTask(s) ==
  IF Len(s.taskQueue) > 0
    THEN [s EXCEPT !.loops = Append(@, DelayRec)]
    ELSE LoopTop(s)

\* processQueue without the isProcessing guard
processQueue_NoGuard(s) ==
  LoopTop([s EXCEPT !.isProcessing = TRUE])

processQueue(s) ==
  IF s.isProcessing
    THEN s
    ELSE LoopTop([s EXCEPT !.isProcessing = TRUE])

retryDelay ==
  IF nodeEnv = "test" THEN RETRY_DELAY_TEST_MS ELSE RETRY_DELAY_MS

\* scheduleRetry that writes no diagnostic
scheduleRetry_Silent(s, urlStr) ==
  [s EXCEPT !.pendingRetries = @ + 1,
            !.retryTimers = Append(@, [url |-> urlStr, left |-> retryDelay]),
            !.armed[urlStr] = @ + 1]

scheduleRetry(s, urlStr) ==
  [s EXCEPT !.stderr = Append(@, [kind |-> "RETRY SCHEDULED", url |-> urlStr,
                                  delay |-> retryDelay]),
            !.pendingRetries = @ + 1,
            !.retryTimers = Append(@, [url |-> urlStr, left |-> retryDelay]),
            !.armed[urlStr] = @ + 1]

\* String.prototype.trim
RECURSIVE TrimStart(_)
TrimStart(str) ==
  IF Len(str) > 0 /\ Head(str) = " " THEN TrimStart(Tail(str)) ELSE str

RECURSIVE TrimEnd(_)
TrimEnd(str) ==
  IF Len(str) > 0 /\ str[Len(str)] = " "
    THEN TrimEnd(SubSeq(str, 1, Len(str) - 1))
    ELSE str

Trim(str) == TrimEnd(TrimStart(str))

\* lines 288-293: the digest of email + secret
hashEmail(email) == [sha256 |-> << email, Secret >>]

\* a title set whenever there is a title element
HasTitle_AnyElement(body) == body.title # NoTitle

\* lines 169-175: is output.title set
HasTitle(body) ==
  /\ body.title # NoTitle
  /\ Len(Trim(body.title)) > 0

\* lines 178-181: is output.email set
HasEmail(body) == body.email # NoEmail

\* the OutputData built from a fetched body: a field that was not found is
\* absent
BuildOutput(urlStr, body) ==
  IF HasTitle(body) /\ HasEmail(body)
    THEN [url |-> urlStr, title |-> Trim(body.title),
          email |-> hashEmail(body.email)]
  ELSE IF HasTitle(body)
    THEN [url |-> urlStr, title |-> Trim(body.title)]
  ELSE IF HasEmail(body)
    THEN [url |-> urlStr, email |-> hashEmail(body.email)]
  ELSE [url |-> urlStr]

\* processUrl that pushes no record on the final failure
processUrl_SilentFinalFailure(s, task, outcome, body) ==
  IF outcome = "ok"
    THEN [s EXCEPT !.output = Append(@, BuildOutput(task.url, body))]
  ELSE IF task.isRetry
    THEN [s EXCEPT !.stderr = Append(@, [kind |-> "FINAL FAILED",
                                         url |-> task.url, delay |-> 0])]
  ELSE scheduleRetry(s, task.url)

\* processUrl whose catch lets the final failure escape
processUrl_Rethrow(s, task, outcome, body) ==
  IF outcome = "ok"
    THEN [s EXCEPT !.output = Append(@, BuildOutput(task.url, body))]
  ELSE IF task.isRetry
    THEN [s EXCEPT !.stderr = Append(@, [kind |-> "FINAL FAILED",
                                         url |-> task.url, delay |-> 0]),
                   !.errors = @ + 1]
  ELSE scheduleRetry(s, task.url)

\* processUrl whose catch lets the failure of a first attempt escape
processUrl_FirstFailureEscapes(s, task, outcome, body) ==
  IF outcome = "ok"
    THEN [s EXCEPT !.output = Append(@, BuildOutput(task.url, body))]
  ELSE IF task.isRetry
    THEN [s EXCEPT !.stderr = Append(@, [kind |-> "FINAL FAILED",
                                         url |-> task.url, delay |-> 0]),
                   !.output = Append(@, [url |-> task.url])]
  ELSE [s EXCEPT !.errors = @ + 1]

\* processUrl that pushes the bare record at the first failure already
processUrl_RecordOnFirstFailure(s, task, outcome, body) ==
  IF outcome = "ok"
    THEN [s EXCEPT !.output = Append(@, BuildOutput(task.url, body))]
  ELSE IF task.isRetry
    THEN [s EXCEPT !.stderr = Append(@, [kind |-> "FINAL FAILED",
                                         url |-> task.url, delay |-> 0])]
  ELSE scheduleRetry([s EXCEPT !.output = Append(@, [url |-> task.url])],
                     task.url)

\* processUrl that schedules a retry after every failure
processUrl_AlwaysRetry(s, task, outcome, body) ==
  IF outcome = "ok"
    THEN [s EXCEPT !.output = Append(@, BuildOutput(task.url, body))]
  ELSE scheduleRetry(s, task.url)

\* processUrl from the point where fetchOnce has settled
processUrl(s, task, outcome, body) ==
  IF outcome = "ok"
    THEN [s EXCEPT !.output = Append(@, BuildOutput(task.url, body))]
  ELSE IF task.isRetry
    THEN [s EXCEPT !.stderr = Append(@, [kind |-> "FINAL FAILED",
                                         url |-> task.url, delay |-> 0]),
                   !.output = Append(@, [url |-> task.url])]
  ELSE scheduleRetry(s, task.url)

\* the task function from the point where fetchOnce has settled: a first
\* attempt is processUrl itself, a retry is the wrapper of scheduleRetry
\* with its finally
\* the retry wrapper that decrements only after a successful retry
RunTask_DecrementOnSuccess(s, task, outcome, body) ==
  IF task.isRetry /\ outcome = "ok"
    THEN [processUrl(s, task, outcome, body) EXCEPT !.pendingRetries = @ - 1]
    ELSE processUrl(s, task, outcome, body)

RunTask(s, task, outcome, body) ==
  IF task.isRetry
    THEN [processUrl(s, task, outcome, body) EXCEPT !.pendingRetries = @ - 1]
    ELSE processUrl(s, task, outcome, body)

\* the catch of fetch: does this failure re-issue the request over http
\* fallback condition that holds for every failure of the request
FallsBack_OnAnyFailure(rec, outcome) ==
  /\ ~rec.isRetry
  /\ rec.reqUrl.scheme = "https://"
  /\ outcome # "ok"

\* fallback condition that ignores the isRetry flag
FallsBack_OnRetryToo(rec, outcome) ==
  /\ rec.reqUrl.scheme = "https://"
  /\ outcome = "transport"

FallsBack(rec, outcome) ==
  /\ ~rec.isRetry
  /\ rec.reqUrl.scheme = "https://"
  /\ outcome = "transport"

\* the transform that enters the URL of no match in the dedup set
UrlProcessor_transform_RecordsNoMatch(s, group) ==
  LET urlStr == ExtractUrl(group)
  IN IF urlStr \in s.seenUrls THEN s
     ELSE IF urlStr = NoUrl THEN [s EXCEPT !.seenUrls = @ \cup {urlStr}]
     ELSE processQueue(LogTask(
            [s EXCEPT !.seenUrls = @ \cup {urlStr},
                      !.taskQueue = Append(@, [url |-> urlStr, isRetry |-> FALSE]),
                      !.created[urlStr].first = @ + 1],
            "push", [url |-> urlStr, isRetry |-> FALSE]))

UrlProcessor_transform(s, group) ==
  LET urlStr == ExtractUrl(group)
  IN IF urlStr = NoUrl THEN s
     ELSE IF urlStr \in s.seenUrls THEN s
     ELSE processQueue(LogTask(
            [s EXCEPT !.seenUrls = @ \cup {urlStr},
                      !.taskQueue = Append(@, [url |-> urlStr, isRetry |-> FALSE]),
                      !.created[urlStr].first = @ + 1],
            "push", [url |-> urlStr, isRetry |-> FALSE]))

UrlProcessor_flush(s) ==
  IF CanFinish(s)
    THEN [s EXCEPT !.doneCount = @ + 1]
    ELSE LET s1 == [s EXCEPT !.flushCallback = TRUE]
         IN IF ~s1.isProcessing THEN processQueue(s1) ELSE s1

\* the setTimeout callback that pushes the retry and does not call
\* processQueue
retryTimerCallback_NoRestart(s) ==
  LET urlStr == Head(s.retryTimers).url
  IN LogTask(
       [s EXCEPT !.retryTimers = Tail(@),
                 !.taskQueue = Append(@, [url |-> urlStr, isRetry |-> TRUE]),
                 !.created[urlStr].retry = @ + 1],
       "push", [url |-> urlStr, isRetry |-> TRUE])

\* the setTimeout callback of scheduleRetry
retryTimerCallback(s) ==
  LET urlStr == Head(s.retryTimers).url
  IN processQueue(LogTask(
       [s EXCEPT !.retryTimers = Tail(@),
                 !.taskQueue = Append(@, [url |-> urlStr, isRetry |-> TRUE]),
                 !.created[urlStr].retry = @ + 1],
       "push", [url |-> urlStr, isRetry |-> TRUE]))

TotalArrivals ==
  LET RECURSIVE Sum(_)
      Sum(S) == IF S = {} THEN 0
                ELSE LET x == CHOOSE y \in S : TRUE
                     IN arrivals[x] + Sum(S \ {x})
  IN Sum(DOMAIN arrivals)

(***************************************************************************)
(* Actions of the processor                                                *)
(***************************************************************************)
\* a bracket group is written to the processor
Transform(group) ==
  /\ ~ended
  /\ TotalArrivals < MaxGroups
  /\ arrivals' = [arrivals EXCEPT ![LastMatch(group)] = @ + 1]
  /\ Commit(UrlProcessor_transform(Cur, group))
  /\ written' = IF recording = "groups" THEN group ELSE NoGroup
  /\ UNCHANGED << nodeEnv, ended, reqLog, recording, parserVars >>

\* the input stream ends
Flush ==
  /\ ~ended
  /\ ended' = TRUE
  /\ Commit(UrlProcessor_flush(Cur))
  /\ written' = NoGroup
  /\ UNCHANGED << nodeEnv, arrivals, reqLog, recording, parserVars >>

\* the fallback that makes the downgraded URL the URL of the task
fetchFallback_RenamesTask(s, i) ==
  LET httpUrl == [s.loops[i].reqUrl EXCEPT !.scheme = "http://"]
  IN [s EXCEPT !.loops[i] =
                 FetchRec([s.loops[i].task EXCEPT !.url = httpUrl], httpUrl,
                          TRUE)]

\* the fallback counted as a retry of its own
fetchFallback_CountsAsRetry(s, i) ==
  [s EXCEPT !.loops[i] =
              FetchRec(s.loops[i].task,
                       [s.loops[i].reqUrl EXCEPT !.scheme = "http://"], TRUE),
            !.pendingRetries = @ + 1]

\* lines 273-274: fetch calls itself on the http:// form of the URL, inside
\* the same task
fetchFallback(s, i) ==
  [s EXCEPT !.loops[i] =
              FetchRec(s.loops[i].task,
                       [s.loops[i].reqUrl EXCEPT !.scheme = "http://"], TRUE)]

\* the native fetch of loop i settles
FetchSettle(i, outcome, body) ==
  /\ i \in 1..Len(loops)
  /\ loops[i].pc = "fetch"
  /\ LET rec == loops[i]
     IN IF FallsBack(rec, outcome)
          THEN Commit(fetchFallback(Cur, i))
          ELSE Commit(AfterTask(
                  RunTask([Cur EXCEPT !.loops = RemoveAt(@, i)],
                          rec.task, outcome, body)))
  /\ reqLog' = IF recording = "requests"
                  THEN [reqLog EXCEPT ![loops[i].task.url] =
                         Append(@, [scheme |-> loops[i].reqUrl.scheme,
                                    isRetry |-> loops[i].task.isRetry,
                                    outcome |-> outcome,
                                    body |-> IF outcome = "ok" THEN body
                                             ELSE NoBody])]
                  ELSE reqLog
  /\ written' = NoGroup
  /\ UNCHANGED << nodeEnv, ended, arrivals, recording, parserVars >>

\* the rate-limit timer of loop i fires
DelayFire(i) ==
  /\ i \in 1..Len(loops)
  /\ loops[i].pc = "delay"
  /\ loops[i].left = 0
  /\ Commit(LoopTop([Cur EXCEPT !.loops = RemoveAt(@, i)]))
  /\ written' = NoGroup
  /\ UNCHANGED << nodeEnv, ended, arrivals, reqLog, recording,
                  parserVars >>

\* the oldest retry timer fires (equal delays: timers fire in arming order)
RetryTimerFire ==
  /\ Len(retryTimers) > 0
  /\ Head(retryTimers).left = 0
  /\ Commit(retryTimerCallback(Cur))
  /\ written' = NoGroup
  /\ UNCHANGED << nodeEnv, ended, arrivals, reqLog, recording,
                  parserVars >>

\* the rate-limit clock still distinguishes instants
RateClockLive ==
  \/ sinceStart >= 0 /\ sinceStart < RATE_LIMIT_DELAY_MS
  \/ \E i \in 1..Len(loops) : loops[i].pc = "delay" /\ loops[i].left > 0

\* the time steps explored: half a rate-limit interval while the rate-limit
\* clock is live, and the time left to the expiry of an armed retry timer
TimeSteps ==
  ( (IF RateClockLive THEN {RATE_LIMIT_DELAY_MS \div 2} ELSE {})
      \cup { retryTimers[k].left : k \in 1..Len(retryTimers) } ) \ {0}

\* d milliseconds pass; a timer may fire at or after its expiry
Advance(d) ==
  /\ d \in TimeSteps
  /\ sinceStart' = IF sinceStart < 0 THEN sinceStart
                   ELSE Min(sinceStart + d, RATE_LIMIT_DELAY_MS)
  /\ loops' = [i \in 1..Len(loops) |->
                 [loops[i] EXCEPT !.left = Monus(@, d)]]
  /\ retryTimers' = [k \in 1..Len(retryTimers) |->
                 [retryTimers[k] EXCEPT !.left = Monus(@, d)]]
  /\ written' = NoGroup
  /\ UNCHANGED << seenUrls, taskQueue, isProcessing, flushCallback,
                  pendingRetries, nodeEnv, ended, output, stderr, errors,
                  reqLog, recording, taskLog, doneCount, alldoneCount,
                  arrivals,
                  created, armed, lastGap, parserVars >>

ProcInit ==
  /\ seenUrls = {}
  /\ taskQueue = << >>
  /\ isProcessing = FALSE
  /\ flushCallback = FALSE
  /\ pendingRetries = 0
  /\ loops = << >>
  /\ retryTimers = << >>
  /\ ended = FALSE
  /\ output = << >>
  /\ stderr = << >>
  /\ errors = 0
  /\ reqLog = [u \in Urls |-> << >>]
  /\ written = NoGroup
  /\ taskLog = << >>
  /\ doneCount = 0
  /\ alldoneCount = 0
  /\ arrivals = [t \in Tokens \cup {NoToken} |-> 0]
  /\ created = [u \in Urls |-> [first |-> 0, retry |-> 0]]
  /\ armed = [u \in Urls |-> 0]
  /\ sinceStart = -1
  /\ lastGap = -1

(***************************************************************************)
(* UrlParser                                                               *)
(***************************************************************************)
\* the characters of the text: the brackets, the backslash, an ordinary
\* one-byte character and an ordinary two-byte character
Chars == {"[", "]", "\\", "a", "U+00E9"}

\* what the UTF-8 decoder substitutes for a malformed byte sequence
ReplacementChar == "U+FFFD"

Inputs == UNION { [1..n -> Chars] : n \in 0..MaxLen }

\* the UTF-8 encoding of a character
BytesOf(char) ==
  CASE char = "[" -> << 91 >>
    [] char = "]" -> << 93 >>
    [] char = "\\" -> << 92 >>
    [] char = "a" -> << 97 >>
    [] char = "U+00E9" -> << 195, 169 >>
    [] OTHER -> << 239, 191, 189 >>

\* the writable side turns a string chunk into a Buffer (decodeStrings)
RECURSIVE Encode(_)
Encode(str) ==
  IF Len(str) = 0 THEN << >> ELSE BytesOf(Head(str)) \o Encode(Tail(str))

\* chunk.toString(): UTF-8 decoding of the bytes of one chunk; a byte
\* sequence that is not a whole character decodes to U+FFFD
RECURSIVE toString(_)
toString(bytes) ==
  IF Len(bytes) = 0 THEN << >>
  ELSE IF bytes[1] = 91 THEN << "[" >> \o toString(Tail(bytes))
  ELSE IF bytes[1] = 93 THEN << "]" >> \o toString(Tail(bytes))
  ELSE IF bytes[1] = 92 THEN << "\\" >> \o toString(Tail(bytes))
  ELSE IF bytes[1] = 97 THEN << "a" >> \o toString(Tail(bytes))
  ELSE IF bytes[1] = 195 /\ Len(bytes) >= 2 /\ bytes[2] = 169
    THEN << "U+00E9" >> \o toString(Tail(Tail(bytes)))
  ELSE << ReplacementChar >> \o toString(Tail(bytes))

ParserCur ==
  [ bracketLevel |-> bracketLevel, currentContent |-> currentContent,
    isEscaped |-> isEscaped, emitted |-> emitted ]

ParserStart ==
  [ bracketLevel |-> 0, currentContent |-> << >>, isEscaped |-> FALSE,
    emitted |-> << >> ]

\* the body of the for loop of _transform that drops the backslash of an
\* escape inside a group
CharStep_DropsBackslash(st, char) ==
  IF st.isEscaped
    THEN [st EXCEPT !.currentContent =
                      IF st.bracketLevel > 0 THEN Append(@, char) ELSE @,
                    !.isEscaped = FALSE]
  ELSE IF char = "\\"
    THEN [st EXCEPT !.isEscaped = TRUE]
  ELSE IF char = "["
    THEN [st EXCEPT !.bracketLevel = @ + 1,
                    !.currentContent =
                      IF st.bracketLevel + 1 = 1 THEN << "[" >>
                      ELSE Append(@, char)]
  ELSE IF char = "]"
    THEN IF st.bracketLevel > 0
           THEN IF st.bracketLevel - 1 = 0
                  THEN [st EXCEPT !.bracketLevel = 0,
                                  !.emitted = Append(@, Append(st.currentContent, char)),
                                  !.currentContent = << >>]
                  ELSE [st EXCEPT !.bracketLevel = @ - 1,
                                  !.currentContent = Append(@, char)]
           ELSE st
  ELSE [st EXCEPT !.currentContent =
                    IF st.bracketLevel > 0 THEN Append(@, char) ELSE @]

\* the body of the for loop of _transform that tests for the brackets
\* before it tests the escape flag
CharStep_BracketsFirst(st, char) ==
  IF char = "["
    THEN [st EXCEPT !.bracketLevel = @ + 1,
                    !.isEscaped = FALSE,
                    !.currentContent =
                      IF st.bracketLevel + 1 = 1 THEN << "[" >>
                      ELSE Append(@, char)]
  ELSE IF char = "]"
    THEN IF st.bracketLevel > 0
           THEN IF st.bracketLevel - 1 = 0
                  THEN [st EXCEPT !.bracketLevel = 0,
                                  !.isEscaped = FALSE,
                                  !.emitted = Append(@, Append(st.currentContent, char)),
                                  !.currentContent = << >>]
                  ELSE [st EXCEPT !.bracketLevel = @ - 1,
                                  !.isEscaped = FALSE,
                                  !.currentContent = Append(@, char)]
           ELSE [st EXCEPT !.isEscaped = FALSE]
  ELSE IF st.isEscaped
    THEN [st EXCEPT !.currentContent =
                      IF st.bracketLevel > 0 THEN Append(@, char) ELSE @,
                    !.isEscaped = FALSE]
  ELSE IF char = "\\"
    THEN [st EXCEPT !.isEscaped = TRUE,
                    !.currentContent =
                      IF st.bracketLevel > 0 THEN Append(@, char) ELSE @]
  ELSE [st EXCEPT !.currentContent =
                    IF st.bracketLevel > 0 THEN Append(@, char) ELSE @]

\* the loop body in which an escaped backslash escapes in its turn
CharStep_EscapeChains(st, char) ==
  IF st.isEscaped
    THEN [st EXCEPT !.currentContent =
                      IF st.bracketLevel > 0 THEN Append(@, char) ELSE @,
                    !.isEscaped = (char = "\\")]
  ELSE IF char = "\\"
    THEN [st EXCEPT !.isEscaped = TRUE,
                    !.currentContent =
                      IF st.bracketLevel > 0 THEN Append(@, char) ELSE @]
  ELSE IF char = "["
    THEN [st EXCEPT !.bracketLevel = @ + 1,
                    !.currentContent =
                      IF st.bracketLevel + 1 = 1 THEN << "[" >>
                      ELSE Append(@, char)]
  ELSE IF char = "]"
    THEN IF st.bracketLevel > 0
           THEN IF st.bracketLevel - 1 = 0
                  THEN [st EXCEPT !.bracketLevel = 0,
                                  !.emitted = Append(@, Append(st.currentContent, char)),
                                  !.currentContent = << >>]
                  ELSE [st EXCEPT !.bracketLevel = @ - 1,
                                  !.currentContent = Append(@, char)]
           ELSE st
  ELSE [st EXCEPT !.currentContent =
                    IF st.bracketLevel > 0 THEN Append(@, char) ELSE @]

\* the loop body that pushes at the closer of a nested pair too
CharStep_EmitsNested(st, char) ==
  IF st.isEscaped
    THEN [st EXCEPT !.currentContent =
                      IF st.bracketLevel > 0 THEN Append(@, char) ELSE @,
                    !.isEscaped = FALSE]
  ELSE IF char = "\\"
    THEN [st EXCEPT !.isEscaped = TRUE,
                    !.currentContent =
                      IF st.bracketLevel > 0 THEN Append(@, char) ELSE @]
  ELSE IF char = "["
    THEN [st EXCEPT !.bracketLevel = @ + 1,
                    !.currentContent =
                      IF st.bracketLevel + 1 = 1 THEN << "[" >>
                      ELSE Append(@, char)]
  ELSE IF char = "]"
    THEN IF st.bracketLevel > 0
           THEN IF st.bracketLevel - 1 = 0
                  THEN [st EXCEPT !.bracketLevel = 0,
                                  !.emitted = Append(@, Append(st.currentContent, char)),
                                  !.currentContent = << >>]
                  ELSE [st EXCEPT !.bracketLevel = @ - 1,
                                  !.emitted = Append(@, Append(st.currentContent, char)),
                                  !.currentContent = Append(@, char)]
           ELSE st
  ELSE [st EXCEPT !.currentContent =
                    IF st.bracketLevel > 0 THEN Append(@, char) ELSE @]

\* the loop body that lets an unmatched closer lower the depth
CharStep_CloserAlwaysCounts(st, char) ==
  IF st.isEscaped
    THEN [st EXCEPT !.currentContent =
                      IF st.bracketLevel > 0 THEN Append(@, char) ELSE @,
                    !.isEscaped = FALSE]
  ELSE IF char = "\\"
    THEN [st EXCEPT !.isEscaped = TRUE,
                    !.currentContent =
                      IF st.bracketLevel > 0 THEN Append(@, char) ELSE @]
  ELSE IF char = "["
    THEN [st EXCEPT !.bracketLevel = @ + 1,
                    !.currentContent =
                      IF st.bracketLevel + 1 = 1 THEN << "[" >>
                      ELSE Append(@, char)]
  ELSE IF char = "]"
    THEN IF st.bracketLevel - 1 = 0
           THEN [st EXCEPT !.bracketLevel = 0,
                           !.emitted = Append(@, Append(st.currentContent, char)),
                           !.currentContent = << >>]
           ELSE [st EXCEPT !.bracketLevel = @ - 1,
                           !.currentContent =
                             IF st.bracketLevel > 0 THEN Append(@, char) ELSE @]
  ELSE [st EXCEPT !.currentContent =
                    IF st.bracketLevel > 0 THEN Append(@, char) ELSE @]

\* the body of the for loop of _transform: one character
CharStep(st, char) ==
  IF st.isEscaped
    THEN [st EXCEPT !.currentContent =
                      IF st.bracketLevel > 0 THEN Append(@, char) ELSE @,
                    !.isEscaped = FALSE]
  ELSE IF char = "\\"
    THEN [st EXCEPT !.isEscaped = TRUE,
                    !.currentContent =
                      IF st.bracketLevel > 0 THEN Append(@, char) ELSE @]
  ELSE IF char = "["
    THEN [st EXCEPT !.bracketLevel = @ + 1,
                    !.currentContent =
                      IF st.bracketLevel + 1 = 1 THEN << "[" >>
                      ELSE Append(@, char)]
  ELSE IF char = "]"
    THEN IF st.bracketLevel > 0
           THEN IF st.bracketLevel - 1 = 0
                  THEN [st EXCEPT !.bracketLevel = 0,
                                  !.emitted = Append(@, Append(st.currentContent, char)),
                                  !.currentContent = << >>]
                  ELSE [st EXCEPT !.bracketLevel = @ - 1,
                                  !.currentContent = Append(@, char)]
           ELSE st
  ELSE [st EXCEPT !.currentContent =
                    IF st.bracketLevel > 0 THEN Append(@, char) ELSE @]

\* the for loop of _transform over the characters of str
RECURSIVE ForEachChar(_, _)
ForEachChar(st, str) ==
  IF Len(str) = 0 THEN st
  ELSE ForEachChar(CharStep(st, Head(str)), Tail(str))

\* _transform that starts every chunk with the escape flag cleared
UrlParser_transform_LocalEscape(st, chunk) ==
  ForEachChar([st EXCEPT !.isEscaped = FALSE], toString(chunk))

UrlParser_transform(st, chunk) ==
  ForEachChar(st, toString(chunk))

\* _flush that pushes what is left of an unclosed bracket
UrlParser_flush_PushesRest(st) ==
  IF st.bracketLevel > 0
    THEN [st EXCEPT !.emitted = Append(@, st.currentContent)]
    ELSE st

\* _flush pushes nothing
UrlParser_flush(st) == st

ParserCommit(st) ==
  /\ bracketLevel' = st.bracketLevel
  /\ currentContent' = st.currentContent
  /\ isEscaped' = st.isEscaped
  /\ emitted' = st.emitted

\* the next k characters of the text are written as one string chunk
ParserWrite(k) ==
  /\ ~parserEnded
  /\ k \in 1..(Len(input) - pos)
  /\ ParserCommit(UrlParser_transform(ParserCur,
                    Encode(SubSeq(input, pos + 1, pos + k))))
  /\ pos' = pos + k
  /\ bytePos' = Len(Encode(SubSeq(input, 1, pos + k)))
  /\ lastCut' = pos
  /\ UNCHANGED << input, parserEnded, procVars >>

\* the characters of the text that lie whole within its first n bytes
WholeChars(n) ==
  CHOOSE k \in 0..Len(input) :
    /\ Len(Encode(SubSeq(input, 1, k))) <= n
    /\ \A j \in (k + 1)..Len(input) : Len(Encode(SubSeq(input, 1, j))) > n

\* the next n bytes of the encoded text are written as one Buffer chunk
\* (a file read by fs.createReadStream without an encoding)
ParserWriteBytes(n) ==
  /\ ~parserEnded
  /\ n \in 1..(Len(Encode(input)) - bytePos)
  /\ ParserCommit(UrlParser_transform(ParserCur,
                    SubSeq(Encode(input), bytePos + 1, bytePos + n)))
  /\ bytePos' = bytePos + n
  /\ pos' = WholeChars(bytePos + n)
  /\ lastCut' = pos
  /\ UNCHANGED << input, parserEnded, procVars >>

\* the text ends
ParserEnd ==
  /\ ~parserEnded
  /\ pos = Len(input)
  /\ parserEnded' = TRUE
  /\ ParserCommit(UrlParser_flush(ParserCur))
  /\ UNCHANGED << input, pos, bytePos, lastCut, procVars >>

ParserIdle ==
  /\ input = << >>
  /\ pos = 0
  /\ bytePos = 0
  /\ lastCut = 0
  /\ bracketLevel = 0
  /\ currentContent = << >>
  /\ isEscaped = FALSE
  /\ emitted = << >>
  /\ parserEnded = FALSE

Init ==
  /\ nodeEnv \in NodeEnvs
  /\ recording = "nothing"
  /\ ProcInit
  /\ ParserIdle

\* a production run whose written groups are kept
GroupInit ==
  /\ nodeEnv = "production"
  /\ recording = "groups"
  /\ ProcInit
  /\ ParserIdle

\* a production run whose task pushes and starts are recorded
TaskInit ==
  /\ nodeEnv = "production"
  /\ recording = "tasks"
  /\ ProcInit
  /\ ParserIdle

\* a production run whose HTTP requests are recorded
ObsInit ==
  /\ nodeEnv = "production"
  /\ recording = "requests"
  /\ ProcInit
  /\ ParserIdle

Next ==
  \/ \E group \in Groups : Transform(group)
  \/ Flush
  \/ \E i \in 1..Len(loops), outcome \in FetchOutcomes, body \in Bodies :
       FetchSettle(i, outcome, body)
  \/ \E i \in 1..Len(loops) : DelayFire(i)
  \/ RetryTimerFire
  \/ \E d \in TimeSteps : Advance(d)

Spec == Init /\ [][Next]_vars

ObsSpec == ObsInit /\ [][Next]_vars

GroupSpec == GroupInit /\ [][Next]_vars

TaskSpec == TaskInit /\ [][Next]_vars

ParserInit ==
  /\ nodeEnv = "production"
  /\ recording = "nothing"
  /\ ProcInit
  /\ input \in Inputs
  /\ pos = 0
  /\ bytePos = 0
  /\ lastCut = 0
  /\ bracketLevel = 0
  /\ currentContent = << >>
  /\ isEscaped = FALSE
  /\ emitted = << >>
  /\ parserEnded = FALSE

ParserNext ==
  \/ \E k \in 1..MaxLen : ParserWrite(k)
  \/ ParserEnd

ParserSpec == ParserInit /\ [][ParserNext]_vars

\* the parser fed with Buffer chunks cut at any byte
ByteNext ==
  \/ \E n \in 1..(2 * MaxLen) : ParserWriteBytes(n)
  \/ ParserEnd

ByteSpec == ParserInit /\ [][ByteNext]_vars

FetchSettleAny ==
  \E i \in 1..Len(loops), outcome \in FetchOutcomes, body \in Bodies :
    FetchSettle(i, outcome, body)

DelayFireAny == \E i \in 1..Len(loops) : DelayFire(i)

AdvanceAny == \E d \in TimeSteps : Advance(d)

\* every fetch settles, time passes and every expired timer fires
FairSpec ==
  /\ Spec
  /\ WF_vars(FetchSettleAny)
  /\ WF_vars(DelayFireAny)
  /\ WF_vars(RetryTimerFire)
  /\ WF_vars(AdvanceAny)

\* the run whose task pushes and starts are recorded, under the same
\* scheduling
FairTaskSpec ==
  /\ TaskSpec
  /\ WF_vars(FetchSettleAny)
  /\ WF_vars(DelayFireAny)
  /\ WF_vars(RetryTimerFire)
  /\ WF_vars(AdvanceAny)

(***************************************************************************)
(* Properties of the processor                                             *)
(***************************************************************************)
RecordsFor(u) ==
  Cardinality({ k \in 1..Len(output) : output[k].url = u })

FetchesInFlight ==
  Cardinality({ i \in 1..Len(loops) : loops[i].pc = "fetch" })

\* C1: the completion callback is never invoked in a step that leaves the
\* task queue non-empty, a task executing (isProcessing set, a fetch in
\* flight) or pendingRetries above zero.
C1_NoCompletionWhileBusy ==
  [][ doneCount' # doneCount =>
        /\ Len(taskQueue') = 0
        /\ ~isProcessing'
        /\ FetchesInFlight' = 0
        /\ pendingRetries' = 0 ]_vars

\* the callback stored by _flush was invoked after a retry had been pending
C1_Witness ==
  /\ doneCount = 1
  /\ alldoneCount = 1
  /\ \E u \in Urls : armed[u] = 1

\* C2: the completion callback is invoked exactly once per run whose input
\* ends: it has been invoked exactly when the input has ended and the
\* queue is empty, no task is executing and pendingRetries is zero, and a
\* run whose input has ended reaches that point.
C2_CompletionExactlyOnce ==
  /\ [](doneCount = IF ended /\ CanFinish(Cur) THEN 1 ELSE 0)
  /\ (ended ~> (doneCount = 1))

\* the input ended while a retry timer was the only work left
C2_Witness ==
  /\ ended
  /\ doneCount = 0
  /\ ~isProcessing
  /\ Len(retryTimers) = 1
  /\ flushCallback

\* C3: when the completion callback has been invoked, every canonical URL
\* that was enqueued has exactly one record in the output.
C3_OneRecordPerUrl ==
  doneCount > 0 =>
    \A u \in Urls :
      RecordsFor(u) = IF u \in seenUrls \/ created[u].first > 0 THEN 1 ELSE 0

\* a completed run with a URL that failed twice and one that succeeded
C3_Witness ==
  /\ doneCount > 0
  /\ \E u, v \in seenUrls :
       /\ u # v
       /\ \E k \in 1..Len(stderr) :
            stderr[k].kind = "FINAL FAILED" /\ stderr[k].url = u
       /\ created[v].retry = 0
       /\ RecordsFor(u) = 1
       /\ RecordsFor(v) = 1

\* the dedup key of a matched token, as the specification defines it
KeyOf(tok) ==
  [scheme |-> IF tok.scheme = "" THEN "https://" ELSE tok.scheme,
   rest |-> tok.rest]

\* C4: a group whose last match resolves to a canonical URL already in the
\* dedup set changes nothing: no task, no fetch, no timer, no record; a
\* scheme-less token and the same token with https:// are one key.
C4_DuplicateIsDropped ==
  [][ \A tok \in Tokens :
        (arrivals'[tok] # arrivals[tok] /\ KeyOf(tok) \in seenUrls) =>
          UNCHANGED << seenUrls, taskQueue, isProcessing, flushCallback,
                       pendingRetries, loops, retryTimers, output, stderr,
                       doneCount, created, armed >> ]_vars

\* both spellings of one URL arrived, the second while its retry was pending
C4_Witness ==
  /\ arrivals[[scheme |-> "", rest |-> "a.com"]] >= 1
  /\ arrivals[[scheme |-> "https://", rest |-> "a.com"]] >= 1
  /\ created[[scheme |-> "https://", rest |-> "a.com"]].first = 1
  /\ pendingRetries = 1

\* C5: for every canonical URL at most one first-attempt task and at most
\* one retry task are ever created, and at most one retry timer is armed.
C5_AtMostTwoTasks ==
  \A u \in Urls :
    /\ created[u].first <= 1
    /\ created[u].retry <= 1
    /\ armed[u] <= 1

\* the retry of a URL has failed as well
C5_Witness ==
  \E u \in Urls :
    /\ created[u].first = 1
    /\ created[u].retry = 1
    /\ \E k \in 1..Len(stderr) :
         stderr[k].kind = "FINAL FAILED" /\ stderr[k].url = u

\* C6: a task never starts less than the rate-limit delay after the start
\* of the task executed before it.
C6_RateLimitBetweenStarts ==
  lastGap = -1 \/ lastGap >= RATE_LIMIT_DELAY_MS

\* C7: at most one worker loop is active and at most one processUrl
\* execution is in flight.
C7_SingleWorker ==
  /\ Len(loops) <= 1
  /\ FetchesInFlight <= 1
  /\ isProcessing <=> Len(loops) = 1

\* a retry timer fired while another task was executing: processQueue was
\* called with isProcessing set
C7_Witness ==
  /\ FetchesInFlight = 1
  /\ Len(taskQueue) = 1
  /\ taskQueue[1].isRetry

(***************************************************************************)
(* Properties of the parser                                                *)
(***************************************************************************)
\* C8: however the text is split into chunks, the groups emitted for the
\* characters consumed so far are those emitted when the same characters
\* are written as a single chunk.
C8_ChunkingEquivalence ==
  emitted =
    UrlParser_transform(ParserStart, Encode(SubSeq(input, 1, pos))).emitted

\* a group with an escaped closer, written with a chunk boundary between
\* the backslash and the bracket it escapes
C8_Witness ==
  /\ input = << "[", "\\", "]", "]" >>
  /\ pos = 4
  /\ lastCut = 2
  /\ emitted = << input >>

\* character i of the text is immediately preceded by an unescaped backslash
RECURSIVE Escaped(_)
Escaped(i) ==
  /\ i > 1
  /\ input[i - 1] = "\\"
  /\ ~Escaped(i - 1)

\* the nesting depth after the first i characters of the text
RECURSIVE Depth(_)
Depth(i) ==
  IF i = 0 THEN 0
  ELSE IF Escaped(i) \/ input[i] = "\\" THEN Depth(i - 1)
  ELSE IF input[i] = "[" THEN Depth(i - 1) + 1
  ELSE IF input[i] = "]" /\ Depth(i - 1) > 0 THEN Depth(i - 1) - 1
  ELSE Depth(i - 1)

\* an unescaped '[' at depth 0
IsOpener(i) ==
  /\ input[i] = "["
  /\ ~Escaped(i)
  /\ Depth(i - 1) = 0

\* the position of the closer that matches the opener at i among the
\* characters consumed, 0 if it is not closed there
Closer(i) ==
  LET Closing == { j \in (i + 1)..pos : Depth(j) = 0 }
  IN IF Closing = {} THEN 0
     ELSE CHOOSE j \in Closing : \A m \in Closing : j <= m

\* the substrings of the top-level bracket pairs from position i on
RECURSIVE PairsFrom(_)
PairsFrom(i) ==
  IF i > pos THEN << >>
  ELSE IF ~IsOpener(i) THEN PairsFrom(i + 1)
  ELSE IF Closer(i) = 0 THEN << >>
  ELSE << SubSeq(input, i, Closer(i)) >> \o PairsFrom(Closer(i) + 1)

\* C9: the groups emitted are exactly the substrings of the text from each
\* unescaped '[' at depth 0 to its matching unescaped ']', one per pair, in
\* the order of the text.
C9_GroupsAreTopLevelPairs ==
  emitted = PairsFrom(1)

\* a group with a nested pair, emitted once and whole, after an unmatched
\* closer
C9_Witness ==
  /\ input = << "]", "[", "[", "]", "]" >>
  /\ pos = 5
  /\ emitted = << << "[", "[", "]", "]" >> >>

\* C10: an escaped bracket never changes the depth and never closes a
\* group: the depth counts the unescaped brackets only, and a step that
\* consumes one escaped bracket leaves the depth and the emitted groups
\* as they were.
C10_EscapedBracketKeepsDepth ==
  /\ [](bracketLevel = Depth(pos))
  /\ [][ (pos' = pos + 1 /\ input[pos'] \in {"[", "]"} /\ Escaped(pos')) =>
           (bracketLevel' = bracketLevel /\ emitted' = emitted) ]_vars

\* an escaped ']' inside a group did not close it, the next ']' did
C10_Witness ==
  /\ input = << "[", "\\", "]", "a", "]" >>
  /\ pos = 5
  /\ emitted = << input >>

(***************************************************************************)
(* Further properties of the processor                                     *)
(***************************************************************************)
\* C11: 'alldone' is emitted in the very step that invokes the completion
\* callback, so the two have always happened the same number of times (once
\* each in a run whose input has ended and whose work is done).
C11_AlldoneWithCompletion ==
  alldoneCount = doneCount

\* the positions in reqLog[u] of the requests of the retry attempt that failed
FailedRetries(u) ==
  { k \in 1..Len(reqLog[u]) :
      reqLog[u][k].isRetry /\ reqLog[u][k].outcome # "ok" }

\* both attempts of u have failed: the last request of the first attempt
\* and the request of the retry attempt
BothAttemptsFailed(u) ==
  \E k \in FailedRetries(u) :
    /\ k > 1
    /\ ~reqLog[u][k - 1].isRetry
    /\ reqLog[u][k - 1].outcome # "ok"

DiagnosticsFor(kind, u) ==
  { k \in 1..Len(stderr) : stderr[k].kind = kind /\ stderr[k].url = u }

\* C12: once both attempts of a URL have failed there is exactly one record
\* for it, with the url field only, one final-failure diagnostic naming it,
\* and no error has been raised on the stream.
C12_FinalFailureRecord ==
  \A u \in Urls :
    BothAttemptsFailed(u) =>
      /\ RecordsFor(u) = 1
      /\ \A k \in 1..Len(output) :
           output[k].url = u => output[k] = [url |-> u]
      /\ Cardinality(DiagnosticsFor("FINAL FAILED", u)) = 1
      /\ errors = 0

\* the run has completed after the first attempt of a URL failed over https
\* and over http and its retry failed too
C12_Witness ==
  /\ doneCount = 1
  /\ \E u \in Urls :
       /\ BothAttemptsFailed(u)
       /\ Len(reqLog[u]) = 3

\* the positions in reqLog[u] of the downgraded (http for https) requests
Downgraded(u) ==
  { k \in 1..Len(reqLog[u]) : reqLog[u][k].scheme # u.scheme }

RequestsOfAttempt(u, isRetry) ==
  { k \in 1..Len(reqLog[u]) : reqLog[u][k].isRetry = isRetry }

\* C13: a downgraded request belongs to a first attempt on an https URL and
\* directly follows the transport failure of the https request of that
\* attempt; the downgraded request is the last of its attempt, so a first
\* attempt makes at most two requests and a retry attempt exactly one.
C13_FallbackOnlyInFirstAttempt ==
  /\ \A u \in Urls :
       /\ \A k \in Downgraded(u) :
            /\ ~reqLog[u][k].isRetry
            /\ u.scheme = "https://"
            /\ k > 1
            /\ k - 1 \notin Downgraded(u)
            /\ ~reqLog[u][k - 1].isRetry
            /\ reqLog[u][k - 1].outcome = "transport"
       /\ Cardinality(RequestsOfAttempt(u, FALSE)) <= 2
       /\ Cardinality(RequestsOfAttempt(u, TRUE)) <= 1
  /\ \A i \in 1..Len(loops) :
       (loops[i].pc = "fetch" /\ loops[i].reqUrl # loops[i].task.url) =>
         /\ ~loops[i].task.isRetry
         /\ loops[i].isRetry
         /\ loops[i].task.url.scheme = "https://"
         /\ Len(reqLog[loops[i].task.url]) = 1
         /\ reqLog[loops[i].task.url][1].outcome = "transport"

\* the first attempt fell back to http, and the retry attempt then met a
\* transport failure on the https URL without falling back
C13_Witness ==
  \E u \in Urls :
    /\ Len(reqLog[u]) = 3
    /\ Downgraded(u) = {2}
    /\ reqLog[u][3].isRetry
    /\ reqLog[u][3].scheme = "https://"
    /\ reqLog[u][3].outcome = "transport"

\* everything the processor holds or has done for URL u
WorkFor(u) ==
  [ seen    |-> u \in seenUrls,
    created |-> created[u],
    queued  |-> Cardinality({ k \in 1..Len(taskQueue) : taskQueue[k].url = u }),
    fetched |-> Cardinality({ i \in 1..Len(loops) :
                              loops[i].pc = "fetch" /\ loops[i].task.url = u }),
    records |-> RecordsFor(u) ]

\* u was the last token of some group written so far
WasLastToken(u) ==
  \E tok \in Tokens : arrivals[tok] > 0 /\ KeyOf(tok) = u

\* C14: the call of _transform on a group with two or more URL-shaped tokens
\* creates a task for the last token only (none if that URL was seen), and
\* changes nothing for the URLs of the earlier tokens; whatever is queued,
\* fetched or reported is the last token of some group written.
C14_LastTokenSelected ==
  /\ [][ Len(written') >= 2 =>
           LET last == KeyOf(written'[Len(written')])
           IN /\ \A u \in Urls \ {last} : WorkFor(u)' = WorkFor(u)
              /\ seenUrls' = seenUrls \cup {last}
              /\ created'[last].retry = created[last].retry
              /\ created'[last].first =
                   IF last \in seenUrls THEN created[last].first
                   ELSE created[last].first + 1
              /\ output' = output ]_vars
  /\ [](\A u \in Urls :
          (WorkFor(u).queued + WorkFor(u).fetched + WorkFor(u).records > 0)
            => WasLastToken(u))

\* the group "http://b.com a.com" was just written, the first of the run:
\* the request for https://a.com is in flight and nothing exists for
\* http://b.com
C14_Witness ==
  /\ written = << [scheme |-> "http://", rest |-> "b.com"],
                  [scheme |-> "", rest |-> "a.com"] >>
  /\ TotalArrivals = 1
  /\ seenUrls = {[scheme |-> "https://", rest |-> "a.com"]}
  /\ WorkFor([scheme |-> "https://", rest |-> "a.com"]).fetched = 1
  /\ WorkFor([scheme |-> "http://", rest |-> "b.com"])
       = [seen |-> FALSE, created |-> [first |-> 0, retry |-> 0],
          queued |-> 0, fetched |-> 0, records |-> 0]

\* an attempt of u has failed: a retry was scheduled for it
HasFailed(u) == DiagnosticsFor("RETRY SCHEDULED", u) # {}

\* C15: no failure raises an error on the stream, and once a URL has failed
\* every other enqueued URL still gets its record: it has exactly one when
\* the completion callback has been invoked, and from any point of the run
\* a point is reached where it has one.
C15_FailureIsContained ==
  /\ [](errors = 0)
  /\ [](\A v \in seenUrls :
          (doneCount > 0 /\ \E u \in Urls \ {v} : HasFailed(u))
            => RecordsFor(v) = 1)
  /\ []<>(\A v \in seenUrls :
            (\E u \in Urls \ {v} : HasFailed(u)) => RecordsFor(v) = 1)

\* a URL has failed at its first attempt while another enqueued URL waits
\* in the queue, and no error was raised
C15_Witness ==
  \E u, v \in Urls :
    /\ u # v
    /\ HasFailed(u)
    /\ RecordsFor(u) = 0
    /\ RecordsFor(v) = 0
    /\ \E k \in 1..Len(taskQueue) :
         taskQueue[k].url = v /\ ~taskQueue[k].isRetry
    /\ errors = 0

\* the bodies of the responses received for u
BodiesReceived(u) ==
  { reqLog[u][k].body : k \in { j \in 1..Len(reqLog[u]) :
                                  reqLog[u][j].outcome = "ok" } }

\* C17: every record has the url field; it has a title field exactly when a
\* body received for the URL has a title element whose trimmed text is not
\* empty, and the field is that text; it has an email field exactly when a
\* body received has an email-shaped substring, and the field is its digest;
\* there is no other field, and no field is empty or stands for a null.
C17_AbsentFieldsAreOmitted ==
  \A k \in 1..Len(output) :
    LET rec == output[k]
        got == BodiesReceived(rec.url)
    IN /\ "url" \in DOMAIN rec
       /\ DOMAIN rec \subseteq {"url", "title", "email"}
       /\ rec.url \in Urls
       /\ "title" \in DOMAIN rec <=>
            \E b \in got : b.title # NoTitle /\ Trim(b.title) # << >>
       /\ "title" \in DOMAIN rec =>
            /\ rec.title # << >>
            /\ rec.title # NoTitle
            /\ \E b \in got : rec.title = Trim(b.title)
       /\ "email" \in DOMAIN rec <=> \E b \in got : b.email # NoEmail
       /\ "email" \in DOMAIN rec =>
            /\ rec.email # hashEmail(NoEmail)
            /\ \E b \in got : rec.email = hashEmail(b.email)

\* one URL got a body whose title is blank and that has no email, and its
\* record has the url field only; another got a title and an email
C17_Witness ==
  \E j, k \in 1..Len(output) :
    /\ output[j] = [url |-> output[j].url]
    /\ BodiesReceived(output[j].url) = {[title |-> << " " >>, email |-> NoEmail]}
    /\ DOMAIN output[k] = {"url", "title", "email"}

\* the positions in taskLog of the event ev of the task
LogPos(ev, task) ==
  { k \in 1..Len(taskLog) : taskLog[k] = [ev |-> ev, task |-> task] }

Pushed(task) == LogPos("push", task) # {}

Started(task) == LogPos("start", task) # {}

\* the task t1 was pushed, respectively started, before the task t2
PushedBefore(t1, t2) ==
  \E j \in LogPos("push", t1) : \E k \in LogPos("push", t2) : j < k

StartedBefore(t1, t2) ==
  \E j \in LogPos("start", t1) : \E k \in LogPos("start", t2) : j < k

AllTasks == [url : Urls, isRetry : BOOLEAN]

FirstTask(u) == [url |-> u, isRetry |-> FALSE]

RecordPos(u) == { k \in 1..Len(output) : output[k].url = u }

\* C18: tasks start in the order in which they were pushed on the queue: a
\* task is pushed and started at most once and is started after it was
\* pushed; of two tasks the one pushed first is started first, so a retry
\* starts after every task pushed before its timer fired; and the records
\* of two URLs that were never retried are in the order of their discovery.
C18_FifoOrder ==
  /\ \A t \in AllTasks :
       /\ Cardinality(LogPos("push", t)) <= 1
       /\ Cardinality(LogPos("start", t)) <= 1
       /\ \A k \in LogPos("start", t) : \E j \in LogPos("push", t) : j < k
  /\ \A t1, t2 \in AllTasks :
       (PushedBefore(t1, t2) /\ Started(t2)) => StartedBefore(t1, t2)
  /\ \A u, v \in Urls :
       ( /\ PushedBefore(FirstTask(u), FirstTask(v))
         /\ armed[u] = 0 /\ armed[v] = 0
         /\ RecordPos(v) # {} )
       => \E j \in RecordPos(u) : \A k \in RecordPos(v) : j < k

\* a retry was pushed while the first attempt of another URL, pushed
\* before it, was waiting; both have started, the retry last
C18_Witness ==
  \E u, v \in Urls :
    /\ u # v
    /\ PushedBefore(FirstTask(v), [url |-> u, isRetry |-> TRUE])
    /\ \E k \in LogPos("push", [url |-> u, isRetry |-> TRUE]) :
         \A j \in LogPos("start", FirstTask(v)) : k < j
    /\ StartedBefore(FirstTask(v), [url |-> u, isRetry |-> TRUE])

\* the first attempt of u has failed with a non-2xx status: the last
\* request of the attempt got one
FirstAttemptStatusFailure(u) ==
  \E k \in RequestsOfAttempt(u, FALSE) :
    /\ reqLog[u][k].outcome = "status"
    /\ \A j \in RequestsOfAttempt(u, FALSE) : j <= k

\* the retry of u has succeeded
RetrySucceeded(u) ==
  \E k \in RequestsOfAttempt(u, TRUE) : reqLog[u][k].outcome = "ok"

\* u has one record, built from the body of request k
RecordCarries(u, k) ==
  /\ RecordsFor(u) = 1
  /\ \A j \in RecordPos(u) :
       LET rec == output[j]
           b == reqLog[u][k].body
       IN /\ "title" \in DOMAIN rec <=> Trim(b.title) \notin {<< >>, NoTitle}
          /\ "title" \in DOMAIN rec => rec.title = Trim(b.title)
          /\ "email" \in DOMAIN rec <=> b.email # NoEmail
          /\ "email" \in DOMAIN rec => rec.email = hashEmail(b.email)

\* C20, as stated: a first attempt that fails with a non-2xx status followed
\* by a successful retry makes exactly two requests in total, and the record
\* carries the data of the body of the retry.
C20_TwoRequestsAfterStatusFailure ==
  \A u \in Urls :
    (FirstAttemptStatusFailure(u) /\ RetrySucceeded(u)) =>
      /\ Len(reqLog[u]) = 2
      /\ RecordCarries(u, 2)

\* C20, amended: the total is two when the non-2xx status answers the first
\* request of the first attempt, and three when it answers the downgraded
\* request made after a transport failure of the https request; the record
\* carries the data of the body of the retry, the last request.
C20_RequestsAfterStatusFailure ==
  \A u \in Urls :
    (FirstAttemptStatusFailure(u) /\ RetrySucceeded(u)) =>
      /\ Len(reqLog[u]) = IF reqLog[u][1].outcome = "status" THEN 2 ELSE 3
      /\ reqLog[u][1].outcome # "status" =>
           /\ reqLog[u][1].outcome = "transport"
           /\ Downgraded(u) = {2}
      /\ reqLog[u][Len(reqLog[u])].isRetry
      /\ RecordCarries(u, Len(reqLog[u]))

\* the first request of a URL got a non-2xx status, its retry got a body
\* with a title and an email, and the record has both
C20_Witness ==
  \E u \in Urls :
    /\ Len(reqLog[u]) = 2
    /\ reqLog[u][1].outcome = "status"
    /\ reqLog[u][2].isRetry
    /\ reqLog[u][2].outcome = "ok"
    /\ \E k \in RecordPos(u) : DOMAIN output[k] = {"url", "title", "email"}

\* the first attempt of u has failed: its last request did
FirstAttemptFailed(u) ==
  \E k \in RequestsOfAttempt(u, FALSE) :
    /\ reqLog[u][k].outcome # "ok"
    /\ \A j \in RequestsOfAttempt(u, FALSE) : j <= k

\* the lines of the diagnostic channel that name u
LinesNaming(u) == { k \in 1..Len(stderr) : stderr[k].url = u }

RetryInFlight(u) ==
  \E i \in 1..Len(loops) :
    /\ loops[i].pc = "fetch"
    /\ loops[i].task = [url |-> u, isRetry |-> TRUE]

\* the retry tasks that have been promised and have not resolved: a timer is
\* armed for them, or they wait in the queue, or they execute
RetriesOutstanding ==
  Len(retryTimers)
  + Cardinality({ k \in 1..Len(taskQueue) : taskQueue[k].isRetry })
  + Cardinality({ i \in 1..Len(loops) :
                  loops[i].pc = "fetch" /\ loops[i].task.isRetry })

FetchInFlight(u) ==
  \E i \in 1..Len(loops) : loops[i].pc = "fetch" /\ loops[i].task.url = u

\* this step ends an attempt of u (the first one, or the retry) in failure:
\* a request of the attempt fails and no other request follows it
AttemptFails(u, isRetry) ==
  /\ Len(reqLog'[u]) = Len(reqLog[u]) + 1
  /\ reqLog'[u][Len(reqLog'[u])].isRetry = isRetry
  /\ reqLog'[u][Len(reqLog'[u])].outcome # "ok"
  /\ ~FetchInFlight(u)'

RetryNotice(u) ==
  [kind |-> "RETRY SCHEDULED", url |-> u, delay |-> retryDelay]

C24_RecordOnlyAfterRetry ==
  /\ [][ \A u \in Urls : AttemptFails(u, FALSE) => output' = output ]_vars
  /\ [](\A u \in Urls :
          FirstAttemptFailed(u) =>
            RecordsFor(u) = IF RequestsOfAttempt(u, TRUE) = {} THEN 0 ELSE 1)

\* the first attempt of a URL has failed and its retry is executing: it has
\* no record, while a URL discovered after it has its own
C24_Witness ==
  \E u, v \in Urls :
    /\ u # v
    /\ FirstAttemptFailed(u)
    /\ RetryInFlight(u)
    /\ RecordsFor(u) = 0
    /\ RecordsFor(v) = 1

\* every task pushed so far has been started and none is executing
AllPushedTasksDone ==
  /\ \A t \in AllTasks : Pushed(t) => Started(t)
  /\ Len(taskQueue) = 0
  /\ \A i \in 1..Len(loops) : loops[i].pc # "fetch"

\* C25: a task never waits in the queue without a worker loop running (in
\* a fetch or in the rate-limit wait), also when it was pushed by a retry
\* timer after the loop had exited; and, every fetch settling and every
\* timer firing, the tasks pushed are all started and executed.
C25_LoopRestarts ==
  /\ [](Len(taskQueue) > 0 => (isProcessing /\ Len(loops) > 0))
  /\ [](\A t \in AllTasks : Started(t) => Pushed(t))
  /\ []<>AllPushedTasksDone

\* the retry of the only URL was pushed by its timer when the loop was idle,
\* and it has been started
C25_Witness ==
  \E u \in Urls :
    /\ taskLog = << [ev |-> "push", task |-> FirstTask(u)],
                    [ev |-> "start", task |-> FirstTask(u)],
                    [ev |-> "push", task |-> [url |-> u, isRetry |-> TRUE]],
                    [ev |-> "start", task |-> [url |-> u, isRetry |-> TRUE]] >>
    /\ RetryInFlight(u)

\* this step is a call of _transform, respectively of a retry timer's
\* callback: both end with a call of processQueue
TransformStep == TotalArrivals' = TotalArrivals + 1

TimerStep == Len(retryTimers') = Len(retryTimers) - 1

\* C26: a step that calls processQueue while isProcessing is true starts no
\* loop and no task: it leaves the suspended loop, isProcessing,
\* pendingRetries, the stored callback and the completion counts as they
\* were, and the queue is the old one with at most the task just pushed.
C26_StartWhileRunningIsNoOp ==
  [][ (isProcessing /\ (TransformStep \/ TimerStep)) =>
        /\ loops' = loops
        /\ isProcessing'
        /\ pendingRetries' = pendingRetries
        /\ flushCallback' = flushCallback
        /\ doneCount' = doneCount
        /\ alldoneCount' = alldoneCount
        /\ output' = output
        /\ \/ taskQueue' = taskQueue
           \/ /\ Len(taskQueue') = Len(taskQueue) + 1
              /\ SubSeq(taskQueue', 1, Len(taskQueue)) = taskQueue
              /\ taskQueue'[Len(taskQueue')].isRetry = TimerStep ]_vars

\* a first-attempt task was pushed while the request of another was in
\* flight: it waits in the queue
C26_Witness ==
  /\ isProcessing
  /\ FetchesInFlight = 1
  /\ Len(taskQueue) = 1
  /\ ~taskQueue[1].isRetry
  /\ ~ended

\* the downgraded request of the first attempt of u is in flight
DowngradedInFlight(u) ==
  \E i \in 1..Len(loops) :
    /\ loops[i].pc = "fetch"
    /\ loops[i].task.url = u
    /\ loops[i].reqUrl # u

\* this step issues the protocol fallback for u
FallbackIssued(u) == ~DowngradedInFlight(u) /\ DowngradedInFlight(u)'

\* C27: the step that issues the fallback pushes no task, creates none,
\* starts no rate-limit wait and no new task, and leaves pendingRetries, the
\* timers and both channels as they were; the step in which the downgraded
\* request fails schedules the one retry of the URL.
C27_FallbackIsNotATask ==
  [][ \A u \in Urls :
        /\ FallbackIssued(u) =>
             /\ taskQueue' = taskQueue
             /\ created' = created
             /\ Len(loops') = Len(loops)
             /\ \A i \in 1..Len(loops') : loops'[i].pc # "delay"
             /\ sinceStart' = sinceStart /\ lastGap' = lastGap
             /\ pendingRetries' = pendingRetries
             /\ retryTimers' = retryTimers
             /\ armed' = armed
             /\ isProcessing' = isProcessing
             /\ output' = output /\ stderr' = stderr
        /\ (DowngradedInFlight(u) /\ AttemptFails(u, FALSE)) =>
             /\ armed[u] = 0 /\ armed'[u] = 1
             /\ pendingRetries' = pendingRetries + 1
             /\ Len(retryTimers') = Len(retryTimers) + 1
             /\ Cardinality(DiagnosticsFor("RETRY SCHEDULED", u)') = 1 ]_vars

\* the downgraded request is in flight while another URL waits in the
\* queue, and no retry is pending
C27_Witness ==
  \E u \in Urls :
    /\ DowngradedInFlight(u)
    /\ Len(taskQueue) = 1
    /\ pendingRetries = 0
    /\ Len(loops) = 1

\* C28: the URL of every task, timer and record is a canonical URL that
\* was enqueued, also after a fallback; the request of a retry task is made
\* to that URL itself, and a URL whose body came from the downgraded request
\* has its record under the canonical URL.
C28_UrlIdentityIsKept ==
  /\ \A k \in 1..Len(taskQueue) : taskQueue[k].url \in seenUrls
  /\ \A k \in 1..Len(retryTimers) : retryTimers[k].url \in seenUrls
  /\ \A i \in 1..Len(loops) :
       loops[i].pc = "fetch" =>
         /\ loops[i].task.url \in seenUrls
         /\ loops[i].task.isRetry => loops[i].reqUrl = loops[i].task.url
  /\ \A k \in 1..Len(output) : output[k].url \in seenUrls
  /\ \A k \in 1..Len(stderr) : stderr[k].url \in seenUrls
  /\ \A u \in Urls :
       /\ \A k \in RequestsOfAttempt(u, TRUE) : reqLog[u][k].scheme = u.scheme
       /\ (\E k \in Downgraded(u) : reqLog[u][k].outcome = "ok") =>
            /\ RecordsFor(u) = 1
            /\ RecordsFor([u EXCEPT !.scheme = "http://"]) = 0

\* an https URL got its body from the downgraded request, and its record
\* is under the https URL
C28_Witness ==
  \E u \in Urls :
    /\ Downgraded(u) = {2}
    /\ reqLog[u][2].outcome = "ok"
    /\ \E k \in 1..Len(output) :
         output[k].url = u /\ u.scheme = "https://"

\* the step is a call of _transform with a chunk that has no URL token
NoMatchStep == arrivals'[NoToken] = arrivals[NoToken] + 1

\* C32: a call of _transform with a chunk in which LAST_URL_REGEX matches
\* nothing leaves the dedup set, the task queue, isProcessing and
\* pendingRetries as they were, starts no fetch and no delay, arms no timer
\* and emits no record, no diagnostic and no completion signal.
C32_NoMatchChangesNothing ==
  [][ NoMatchStep =>
        /\ seenUrls' = seenUrls
        /\ taskQueue' = taskQueue
        /\ isProcessing' = isProcessing
        /\ pendingRetries' = pendingRetries
        /\ flushCallback' = flushCallback
        /\ loops' = loops
        /\ retryTimers' = retryTimers
        /\ output' = output
        /\ stderr' = stderr
        /\ doneCount' = doneCount ]_vars

\* a chunk without a URL token was received while a URL is in the dedup set
\* and its request is in flight
C32_Witness ==
  /\ arrivals[NoToken] >= 1
  /\ seenUrls # {}
  /\ \E i \in 1..Len(loops) : loops[i].pc = "fetch"

\* the URL begins with http:// or https://
HasScheme(u) == u.scheme \in {"http://", "https://"}

\* the URL is what lines 70-73 make of the token
MadeFrom(u, tok) ==
  /\ u.rest = tok.rest
  /\ tok.scheme = "" => u.scheme = "https://"
  /\ tok.scheme # "" => u = tok

KickStep ==
  /\ ~ended
  /\ ended'
  /\ ~CanFinish(Cur)
  /\ ~isProcessing

\* C34: whenever the event loop is between two callbacks a non-empty task
\* queue has isProcessing true, and a call of _flush that reaches the kick
\* finds the queue empty, so the processQueue it starts runs no task and
\* leaves the worker loop idle.
C34_QueuedWorkHasActiveLoop ==
  /\ [](Len(taskQueue) > 0 => isProcessing)
  /\ [][ KickStep =>
           /\ Len(taskQueue) = 0
           /\ pendingRetries > 0
           /\ taskQueue' = taskQueue
           /\ loops' = loops
           /\ ~isProcessing'
           /\ flushCallback' ]_vars

\* the input has ended while a task waits in the queue behind the running
\* worker loop
C34_Witness ==
  /\ ended
  /\ flushCallback
  /\ Len(taskQueue) > 0
  /\ isProcessing

\* a timer is armed for the retry of u, or the retry task of u waits in the
\* queue, or it executes
RetryPlaces(u) ==
  Cardinality({ i \in 1..Len(retryTimers) : retryTimers[i].url = u })
  + Cardinality({ k \in 1..Len(taskQueue) :
                  taskQueue[k] = [url |-> u, isRetry |-> TRUE] })
  + Cardinality({ i \in 1..Len(loops) :
                  /\ loops[i].pc = "fetch"
                  /\ loops[i].task = [url |-> u, isRetry |-> TRUE] })

\* the first attempt of u has failed and its retry has not resolved: the
\* retry was scheduled and u has no record yet
RetryUnresolved(u) == HasFailed(u) /\ RecordsFor(u) = 0

\* C35: pendingRetries is never negative and is the number of URLs whose
\* first attempt has failed and whose retry has not resolved; each of those
\* URLs is in exactly one place (timer armed, retry queued, retry executing)
\* and no other URL is in any.
C35_PendingRetriesCountsUnresolved ==
  /\ pendingRetries >= 0
  /\ pendingRetries = Cardinality({ u \in Urls : RetryUnresolved(u) })
  /\ \A u \in Urls :
       RetryPlaces(u) = IF RetryUnresolved(u) THEN 1 ELSE 0

\* two retries are unresolved, one with its timer armed and one executing
C35_Witness ==
  /\ pendingRetries = 2
  /\ Len(retryTimers) = 1
  /\ \E u \in Urls : RetryInFlight(u)

\* C36: once the completion callback has been invoked nothing is left that
\* could act (no queued task, no running loop, no armed retry timer), and no
\* later step pushes a record, writes a diagnostic, starts a task or fires a
\* timer: the records of the run are those present at the completion.
C36_NothingAfterCompletion ==
  /\ [](doneCount > 0 =>
          /\ Len(taskQueue) = 0
          /\ Len(loops) = 0
          /\ Len(retryTimers) = 0
          /\ ~flushCallback)
  /\ [][ doneCount > 0 =>
           /\ output' = output
           /\ stderr' = stderr
           /\ taskQueue' = taskQueue
           /\ loops' = loops
           /\ retryTimers' = retryTimers
           /\ pendingRetries' = pendingRetries
           /\ doneCount' = doneCount ]_vars

\* the run has completed with the records of two URLs, one of them pushed
\* by a retry
C36_Witness ==
  /\ doneCount = 1
  /\ Len(output) = 2
  /\ \E u \in Urls : armed[u] = 1 /\ RecordsFor(u) = 1

\* the requests issued so far by the first attempt of u, or by its retry
\* attempt: those that have settled and the one in flight
IssuedBy(u, isRetry) ==
  Cardinality(RequestsOfAttempt(u, isRetry))
  + Cardinality({ i \in 1..Len(loops) :
                  /\ loops[i].pc = "fetch"
                  /\ loops[i].task = [url |-> u, isRetry |-> isRetry] })

\* C37: over the whole run at most three requests are issued for a
\* canonical URL, in flight ones included: at most two by its first attempt
\* (only one when the URL is an http URL), and one by its retry attempt,
\* which exists exactly when the first attempt has failed and the retry
\* task has started.
C37_AtMostThreeRequests ==
  \A u \in Urls :
    /\ IssuedBy(u, FALSE) + IssuedBy(u, TRUE) <= 3
    /\ IssuedBy(u, FALSE) <= IF u.scheme = "https://" THEN 2 ELSE 1
    /\ IssuedBy(u, TRUE) =
         IF HasFailed(u) /\ (RetryInFlight(u) \/ RecordsFor(u) = 1)
           THEN 1 ELSE 0
    /\ IssuedBy(u, TRUE) = 1 => IssuedBy(u, FALSE) >= 1

\* three requests were issued for one URL, the third, of the retry, still
\* in flight
C37_Witness ==
  \E u \in Urls :
    /\ Len(reqLog[u]) = 2
    /\ RetryInFlight(u)
    /\ IssuedBy(u, FALSE) = 2

\* the URLs that have a task queued or executing, an armed retry timer or a
\* record
UrlsAtWork ==
  { taskQueue[k].url : k \in 1..Len(taskQueue) }
  \cup { loops[i].task.url : i \in { j \in 1..Len(loops) : loops[j].pc = "fetch" } }
  \cup { retryTimers[i].url : i \in 1..Len(retryTimers) }
  \cup { output[k].url : k \in 1..Len(output) }

\* C39: no step removes an entry of the dedup set; every URL that has a
\* task, an armed retry or a record is in the set; the records emitted are
\* never more than the entries of the set, and are as many when the
\* completion callback has been invoked.
C39_DedupSetOnlyGrows ==
  /\ [][seenUrls \subseteq seenUrls']_vars
  /\ [](/\ UrlsAtWork \subseteq seenUrls
        /\ Len(output) <= Cardinality(seenUrls)
        /\ doneCount > 0 => Len(output) = Cardinality(seenUrls))

\* the run has completed with two entries in the dedup set and two records
C39_Witness ==
  /\ doneCount = 1
  /\ Cardinality(seenUrls) = 2
  /\ Len(output) = 2
  /\ UrlsAtWork = seenUrls

(***************************************************************************)
(* Further properties of the parser                                        *)
(***************************************************************************)
\* C16: the end of the input pushes nothing, whatever bracketLevel and
\* currentContent are: the groups emitted are those emitted before, and the
\* content of a bracket left open is not among them.
C16_UnclosedBracketDiscarded ==
  [][ (parserEnded' /\ ~parserEnded) =>
        /\ emitted' = emitted
        /\ bracketLevel' = bracketLevel
        /\ currentContent' = currentContent ]_vars

\* the input has ended inside an open bracket, after one complete group
C16_Witness ==
  /\ parserEnded
  /\ bracketLevel > 0
  /\ Len(currentContent) > 1
  /\ Len(emitted) = 1

\* C19: when the text is delivered as Buffers cut at any byte, the groups
\* emitted once the input has ended are those emitted for the text written
\* as a single chunk.
C19_ByteChunkingEquivalence ==
  parserEnded =>
    emitted = UrlParser_transform(ParserStart, Encode(input)).emitted

\* the positions of the text that hold an unescaped ']' met at depth 0
UnmatchedClosers ==
  { i \in 1..Len(input) :
      input[i] = "]" /\ ~Escaped(i) /\ Depth(i - 1) = 0 }

\* C29: a chunk that is a single unescaped ']' read at depth 0 changes
\* nothing in the parser, and once the whole text is consumed the groups
\* emitted are those emitted for the text without that character.
C29_UnmatchedCloserIgnored ==
  /\ [][ ( /\ pos' = pos + 1
           /\ input[pos + 1] = "]"
           /\ bracketLevel = 0
           /\ ~isEscaped ) =>
           /\ bracketLevel' = 0
           /\ currentContent' = currentContent
           /\ emitted' = emitted
           /\ ~isEscaped' ]_vars
  /\ [](pos = Len(input) =>
          \A i \in UnmatchedClosers :
            emitted =
              UrlParser_transform(ParserStart,
                                  Encode(RemoveAt(input, i))).emitted)

\* an unmatched ']' was written as a chunk of its own between two groups,
\* after the first of them was emitted
C29_Witness ==
  /\ input = << "[", "]", "]", "[", "]" >>
  /\ lastCut = 2
  /\ pos = 3
  /\ emitted = << << "[", "]" >> >>
  /\ bracketLevel = 0

\* the positions in m..n of the closers that take the depth from 1 to 0
TopLevelClosers(m, n) ==
  { i \in m..n : Depth(i - 1) = 1 /\ Depth(i) = 0 }

\* the position of the opener of the top-level group that closes at c
OpenerOf(c) ==
  CHOOSE o \in 1..c :
    /\ Depth(o - 1) = 0
    /\ \A j \in o..(c - 1) : Depth(j) >= 1

\* C30: a chunk pushes one group for each closer in it that takes the depth
\* from 1 to 0 and none for any other character, the closer of a nested
\* pair included; the group pushed at such a closer is the text from the
\* opener of the outermost bracket to the closer, nested pairs inside it.
C30_OnlyOutermostGroupEmitted ==
  /\ [][ pos' > pos =>
           /\ Len(emitted') =
                Len(emitted) + Cardinality(TopLevelClosers(pos + 1, pos'))
           /\ SubSeq(emitted', 1, Len(emitted)) = emitted
           /\ (pos' = pos + 1 /\ Len(emitted') > Len(emitted)) =>
                /\ input[pos'] = "]"
                /\ bracketLevel = 1 /\ bracketLevel' = 0
                /\ emitted'[Len(emitted')] =
                     SubSeq(input, OpenerOf(pos'), pos') ]_vars
  /\ [](Len(emitted) = Cardinality(TopLevelClosers(1, pos)))

\* the closer of a nested pair was consumed without a push, and the closer
\* of the outermost bracket, written alone, pushed the whole group
C30_Witness ==
  /\ input = << "a", "[", "[", "]", "]" >>
  /\ lastCut = 4
  /\ pos = 5
  /\ emitted = << << "[", "[", "]", "]" >> >>

\* the last character consumed is a backslash that is not itself escaped
EndsInEscape ==
  /\ pos > 0
  /\ input[pos] = "\\"
  /\ ~Escaped(pos)

\* the text consumed ends, at depth 0, in two backslashes and a '['
TwoBackslashesThenOpener ==
  /\ pos >= 3
  /\ input[pos] = "["
  /\ input[pos - 1] = "\\"
  /\ input[pos - 2] = "\\"
  /\ ~Escaped(pos - 2)
  /\ Depth(pos - 3) = 0

RECURSIVE EscapedIn(_, _)
EscapedIn(acc, i) ==
  /\ i > 1
  /\ acc[i - 1] = "\\"
  /\ ~EscapedIn(acc, i - 1)

\* the unescaped occurrences of a bracket in the accumulator
UnescapedIn(acc, bracket) ==
  Cardinality({ i \in 1..Len(acc) : acc[i] = bracket /\ ~EscapedIn(acc, i) })

\* C38: after every character consumed the depth is not negative, the
\* accumulator is empty when the depth is 0, and when the depth is positive
\* the accumulator starts with '[' and holds that many more unescaped '['
\* than unescaped ']'.
C38_AccumulatorMatchesDepth ==
  /\ bracketLevel >= 0
  /\ bracketLevel = 0 => currentContent = << >>
  /\ bracketLevel > 0 =>
       /\ Len(currentContent) >= 1
       /\ currentContent[1] = "["
       /\ UnescapedIn(currentContent, "[") - UnescapedIn(currentContent, "]")
            = bracketLevel

\* inside a group at depth 1 whose accumulator holds an escaped bracket and
\* a nested pair that has closed
C38_Witness ==
  /\ bracketLevel = 1
  /\ UnescapedIn(currentContent, "[") = 2
  /\ UnescapedIn(currentContent, "]") = 1
  /\ \E i \in 1..Len(currentContent) :
       currentContent[i] \in {"[", "]"} /\ EscapedIn(currentContent, i)

====
